---------------------------- MODULE Spec2Model ----------------------------
(* The WebVR thread of components/vr/webvr_thread.rs as a state machine:   *)
(* the dispatcher loop (WebVRThread::start) with its handlers, the inbound *)
(* ipc channel, and the WebVRPollEvents threads it spawns.                  *)
(* The VRServiceManager (crate rust-webvr) and the peers at the other end  *)
(* of the reply channels and of the constellation channel are environment: *)
(* their answers are nondeterministic choices inside the handler that asks *)
(* for them.                                                                *)
EXTENDS Integers, Sequences, FiniteSets, TLC

\* ------------------------------------------------------------------ bounds
NumContexts == 2
NumDevices == 1
MaxQueue == 2
MaxPollers == 2
MaxEvents == 1

Contexts == 1..NumContexts
DeviceIds == 1..NumDevices
PollerIds == 1..MaxPollers

\* HashMap::get returning None / a message without a PipelineId or device id
NoOwner == 0
\* Option<IpcSender<..>> = None / a message kind without a reply channel
NoSender == 0
\* a reply channel created by a script thread (ipc::channel() in the caller)
CallerSender == MaxPollers + 1

VARIABLES
    queue,            \* messages in flight to self.receiver, oldest first
    contexts,         \* self.contexts
    polling_events,   \* self.polling_events
    presenting,       \* self.presenting, NoOwner where the map has no entry
    devices,          \* ids self.service.get_device() answers Some for
    initialized,      \* self.service.is_initialized()
    status,           \* the WebVRThread: "running", "exited" or "panicked"
    pollers,          \* the WebVRPollEvents threads: position and reply slot
    handled,          \* the message the dispatcher handled in the step that
                      \* led here and the reply it sent; NoMsg after a step
                      \* of another thread
    events_out,       \* what that handler sent on constellation_chan
    displays,         \* the VRDisplay of each script thread for each device
    calls,            \* each script thread: the VRDisplay method it is in,
                      \* or the outcome of the last one
    inbox,            \* WebVREvents on their way to each script thread
    compositors,      \* WebVRCompositorHandler.compositors: the ids mapped
                      \* to a *mut VRDevice
    inside            \* the device the dispatcher (.webvr) and the
                      \* compositor handler (.handler) are working on

script_vars == <<displays, calls, inbox>>
compositor_vars == <<compositors, inside>>

vars == <<queue, contexts, polling_events, presenting, devices, initialized,
          status, pollers, handled, events_out, script_vars,
          compositor_vars>>

\* ---------------------------------------------------------------- messages
Msg(k, p, d, s) == [kind |-> k, pipeline |-> p, device_id |-> d, sender |-> s]

RegisterContext(c) == Msg("RegisterContext", c, 0, NoSender)
UnregisterContext(c) == Msg("UnregisterContext", c, 0, NoSender)
PollEvents(p) == Msg("PollEvents", 0, 0, p)
GetVRDisplays == Msg("GetVRDisplays", 0, 0, CallerSender)
GetFrameData(c, d) == Msg("GetFrameData", c, d, CallerSender)
ResetPose(c, d) == Msg("ResetPose", c, d, CallerSender)
RequestPresent(c, d) == Msg("RequestPresent", c, d, CallerSender)
ExitPresent(c, d, s) == Msg("ExitPresent", c, d, s)
Exit == Msg("Exit", 0, 0, NoSender)

\* what script threads and the constellation can put on the channel
CallerMessages ==
    {RegisterContext(c) : c \in Contexts} \cup
    {UnregisterContext(c) : c \in Contexts} \cup
    {GetVRDisplays} \cup
    {GetFrameData(c, d) : c \in Contexts, d \in DeviceIds} \cup
    {ResetPose(c, d) : c \in Contexts, d \in DeviceIds} \cup
    {RequestPresent(c, d) : c \in Contexts, d \in DeviceIds} \cup
    {ExitPresent(c, d, s) : c \in Contexts, d \in DeviceIds,
                            s \in {NoSender, CallerSender}}

\* webvr::VRDisplayEvent
EventKinds == {"Connect", "Disconnect", "Activate", "Deactivate", "Blur",
               "Focus", "PresentChange", "Change"}
DisplayEvent(k, d, b) == [event |-> k, display |-> d, presenting |-> b]

NoMsg == Msg("none", 0, 0, NoSender)
NoReply == "none"
NotHandled == [msg |-> NoMsg, reply |-> NoReply]

\* ------------------------------------------------- script and compositor
\* webvr::VRLayer::default(): both bounds as the library sets them, told
\* apart here from every array a page can pass
DefaultBounds == <<0, 0, 0, 0>>
DefaultLayer == [left_bounds |-> DefaultBounds, right_bounds |-> DefaultBounds]

\* VRDisplay::new_inherited: display is the VRDisplayData it was made from
\* (with the connected flag that data carries), presenting is false and the
\* layer is the default one
VRDisplay_new ==
    [display |-> [data |-> "GetVRDisplays", connected |-> "data"],
     presenting |-> FALSE,
     layer |-> DefaultLayer]

\* a script thread that is in no VRDisplay method and has called none
NoCall ==
    [pc |-> "idle", method |-> "none", device_id |-> 0,
     args |-> [source |-> "none"], reply |-> NoReply, promise |-> "none",
     error |-> "none"]

\* a thread that is not working on any device
NoAccess == [device_id |-> 0, write |-> FALSE]

\* ------------------------------------------------------------------- Init
Init ==
    /\ queue = <<>>
    /\ contexts = {}
    /\ polling_events = FALSE
    /\ presenting = [d \in DeviceIds |-> NoOwner]
    /\ devices \in SUBSET DeviceIds
    /\ initialized \in BOOLEAN
    /\ status = "running"
    /\ pollers = [p \in PollerIds |-> [pc |-> "free", reply |-> "none"]]
    /\ handled = [msg |-> NoMsg, reply |-> NoReply, delivered |-> FALSE,
                  before |-> NotHandled]
    /\ events_out = <<>>
    /\ displays = [w \in Contexts \X DeviceIds |-> VRDisplay_new]
    /\ calls = [c \in Contexts |-> NoCall]
    /\ inbox = [c \in Contexts |-> <<>>]
    /\ compositors = {}
    /\ inside = [webvr |-> NoAccess, handler |-> NoAccess]

\* ------------------------------------------------- the dispatcher's helpers
\* a receiver that hands out the newest message first
Recv_newest(m) ==
    /\ status = "running"
    /\ queue # <<>>
    /\ queue[Len(queue)] = m

\* while let Ok(msg) = self.receiver.recv(): m is the message taken
Recv(m) ==
    /\ status = "running"
    /\ queue # <<>>
    /\ Head(queue) = m

\* an event addressed to every pipeline there is, registered or not
WebVREvent_to_all(ids, ev) == [pipeline_ids |-> Contexts, event |-> ev]

\* ConstellationMsg::WebVREvent(pipeline_ids, WebVREventMsg::DisplayEvent(event))
WebVREvent(ids, ev) == [pipeline_ids |-> ids, event |-> ev]

\* the two error strings of access_check
DeviceBusy == "Device owned by another context"
DeviceNotFound == "Device not found"

\* access_check without the ownership test
access_check_unowned(pipeline, device_id) ==
    IF device_id \in devices THEN "Ok" ELSE DeviceNotFound

\* access_check refusing every owned device, the requester's own included
access_check_no_reentry(pipeline, device_id) ==
    IF presenting[device_id] # NoOwner THEN DeviceBusy
    ELSE IF device_id \in devices THEN "Ok"
    ELSE DeviceNotFound

\* access_check without the unwrap_or default: only the owner passes
access_check_owner_only(pipeline, device_id) ==
    IF presenting[device_id] # pipeline THEN DeviceBusy
    ELSE IF device_id \in devices THEN "Ok"
    ELSE DeviceNotFound

\* access_check looking the device up before it tests the owner
access_check_lookup_first(pipeline, device_id) ==
    IF device_id \notin devices THEN DeviceNotFound
    ELSE IF presenting[device_id] \notin {NoOwner, pipeline} THEN DeviceBusy
    ELSE "Ok"

\* Result of access_check: "Ok", or the error string it returns
access_check(pipeline, device_id) ==
    LET owner == IF presenting[device_id] = NoOwner
                 THEN pipeline                      \* unwrap_or(&pipeline)
                 ELSE presenting[device_id]
    IN  IF owner # pipeline THEN DeviceBusy
        ELSE IF device_id \in devices THEN "Ok"
        ELSE DeviceNotFound

\* a handler that forgets the insert
presenting_insert_skipped(device_id, pipeline) == presenting

\* self.presenting.insert(device_id, pipeline)
presenting_insert(device_id, pipeline) ==
    [presenting EXCEPT ![device_id] = pipeline]

\* a handler that forgets the remove
presenting_remove_skipped(device_id) == presenting

\* self.presenting.remove(&device_id)
presenting_remove(device_id) ==
    [presenting EXCEPT ![device_id] = NoOwner]

\* an answer that keeps polling for as long as a device is presented
still_polling_while_presenting ==
    \/ Cardinality(contexts) > 0
    \/ \E d \in DeviceIds : presenting[d] # NoOwner

\* a poller that is never told to stop
still_polling_always == TRUE

\* self.contexts.len() > 0, the answer to the poller
still_polling == Cardinality(contexts) > 0

\* the slot the next spawned WebVRPollEvents thread takes
FreePollers == {p \in PollerIds : pollers[p].pc = "free"}
NextPoller == CHOOSE p \in FreePollers : \A q \in FreePollers : p <= q

\* a schedule_poll_events that does not ask whether the service is initialised
schedule_poll_events_uninitialised(init) ==
    IF ~polling_events
    THEN /\ FreePollers # {}
         /\ polling_events' = TRUE
         /\ pollers' = [pollers EXCEPT ![NextPoller] =
                            [pc |-> "send", reply |-> "none"]]
    ELSE UNCHANGED <<polling_events, pollers>>

\* a schedule_poll_events that does not look at the polling flag
schedule_poll_events_always(init) ==
    IF init
    THEN /\ FreePollers # {}
         /\ polling_events' = TRUE
         /\ pollers' = [pollers EXCEPT ![NextPoller] =
                            [pc |-> "send", reply |-> "none"]]
    ELSE UNCHANGED <<polling_events, pollers>>

\* a schedule_poll_events that never starts a thread
schedule_poll_events_never(init) == UNCHANGED <<polling_events, pollers>>

\* schedule_poll_events, reading is_initialized() as init
schedule_poll_events(init) ==
    IF init /\ ~polling_events
    THEN /\ FreePollers # {}
         /\ polling_events' = TRUE
         /\ pollers' = [pollers EXCEPT ![NextPoller] =
                            [pc |-> "send", reply |-> "none"]]
    ELSE UNCHANGED <<polling_events, pollers>>

\* The observation of a handler's step: the message m it took, the value r
\* it handed to the reply channel (NoReply when it sent nothing back),
\* whether that send succeeded, and what the step before handled if that
\* step was the dispatcher's too
Handled(m, r, ok) ==
    [msg |-> m, reply |-> r, delivered |-> ok,
     before |-> [msg |-> handled.msg, reply |-> handled.reply]]

\* a handler that ran to its end, or one whose send(..).unwrap() panicked
Outcome(ok) == IF ok THEN status ELSE "panicked"

\* ------------------------------------------------------------ the handlers
\* a RegisterContext that drops a context registered already
HandleRegisterContext_toggle ==
    \E c \in Contexts :
        /\ Recv(RegisterContext(c))
        /\ queue' = Tail(queue)
        /\ contexts' = IF c \in contexts THEN contexts \ {c}
                                          ELSE contexts \cup {c}
        /\ schedule_poll_events(initialized)
        /\ handled' = Handled(RegisterContext(c), NoReply, FALSE)
        /\ events_out' = <<>>
        /\ UNCHANGED <<presenting, devices, initialized, status>>

HandleRegisterContext ==
    \E c \in Contexts :
        /\ Recv(RegisterContext(c))
        /\ queue' = Tail(queue)
        /\ contexts' = contexts \cup {c}
        /\ schedule_poll_events(initialized)
        /\ handled' = Handled(RegisterContext(c), NoReply, FALSE)
        /\ events_out' = <<>>
        /\ UNCHANGED <<presenting, devices, initialized, status>>

\* an UnregisterContext that stops the scheduler with the last context
HandleUnregisterContext_stopping ==
    \E c \in Contexts :
        /\ Recv(UnregisterContext(c))
        /\ queue' = Tail(queue)
        /\ contexts' = contexts \ {c}
        /\ polling_events' = (polling_events /\ contexts' # {})
        /\ handled' = Handled(UnregisterContext(c), NoReply, FALSE)
        /\ events_out' = <<>>
        /\ UNCHANGED <<presenting, devices, initialized, status, pollers>>

\* an UnregisterContext that also gives up the devices of the context
HandleUnregisterContext_releasing ==
    \E c \in Contexts :
        /\ Recv(UnregisterContext(c))
        /\ queue' = Tail(queue)
        /\ contexts' = contexts \ {c}
        /\ presenting' = [d \in DeviceIds |->
                              IF presenting[d] = c THEN NoOwner
                                                   ELSE presenting[d]]
        /\ handled' = Handled(UnregisterContext(c), NoReply, FALSE)
        /\ events_out' = <<>>
        /\ UNCHANGED <<polling_events, devices, initialized, status, pollers>>

HandleUnregisterContext ==
    \E c \in Contexts :
        /\ Recv(UnregisterContext(c))
        /\ queue' = Tail(queue)
        /\ contexts' = contexts \ {c}
        /\ handled' = Handled(UnregisterContext(c), NoReply, FALSE)
        /\ events_out' = <<>>
        /\ UNCHANGED <<polling_events, presenting, devices, initialized,
                       status, pollers>>

\* get_devices() may initialise the services; the reply goes to a caller
\* that may be gone, and then schedule_poll_events is not reached
HandleGetVRDisplays ==
    \E init \in {initialized, TRUE}, sent \in BOOLEAN :
        /\ Recv(GetVRDisplays)
        /\ queue' = Tail(queue)
        /\ initialized' = init
        /\ IF sent THEN schedule_poll_events(init)
                   ELSE UNCHANGED <<polling_events, pollers>>
        /\ status' = Outcome(sent)
        /\ handled' = Handled(GetVRDisplays, "Ok", sent)
        /\ events_out' = <<>>
        /\ UNCHANGED <<contexts, presenting, devices>>

HandleGetFrameData ==
    \E c \in Contexts, d \in DeviceIds, sent \in BOOLEAN :
        /\ Recv(GetFrameData(c, d))
        /\ queue' = Tail(queue)
        /\ status' = Outcome(sent)
        /\ handled' = Handled(GetFrameData(c, d), access_check(c, d), sent)
        /\ events_out' = <<>>
        /\ UNCHANGED <<contexts, polling_events, presenting, devices,
                       initialized, pollers>>

\* a ResetPose that also ends the presentation of the device
HandleResetPose_releasing ==
    \E c \in Contexts, d \in DeviceIds, sent \in BOOLEAN :
        /\ Recv(ResetPose(c, d))
        /\ queue' = Tail(queue)
        /\ presenting' = presenting_remove(d)
        /\ status' = Outcome(sent)
        /\ handled' = Handled(ResetPose(c, d), access_check(c, d), sent)
        /\ events_out' = <<>>
        /\ UNCHANGED <<contexts, polling_events, devices, initialized,
                       pollers>>

HandleResetPose ==
    \E c \in Contexts, d \in DeviceIds, sent \in BOOLEAN :
        /\ Recv(ResetPose(c, d))
        /\ queue' = Tail(queue)
        /\ status' = Outcome(sent)
        /\ handled' = Handled(ResetPose(c, d), access_check(c, d), sent)
        /\ events_out' = <<>>
        /\ UNCHANGED <<contexts, polling_events, presenting, devices,
                       initialized, pollers>>

\* sent: the reply reached the caller; notified: the constellation took the
\* PresentChange event (asked for only after a reply of Ok)
HandleRequestPresent ==
    \E c \in Contexts, d \in DeviceIds, sent \in BOOLEAN, notified \in BOOLEAN :
        LET r == access_check(c, d)
            fanout == r = "Ok" /\ sent
        IN  /\ Recv(RequestPresent(c, d))
            /\ ~fanout => notified
            /\ queue' = Tail(queue)
            /\ presenting' = IF r = "Ok" THEN presenting_insert(d, c)
                                         ELSE presenting
            /\ status' = Outcome(sent /\ notified)
            /\ handled' = Handled(RequestPresent(c, d), r, sent)
            /\ events_out' =
                   IF fanout /\ notified
                   THEN <<WebVREvent(contexts,
                                     DisplayEvent("PresentChange", d, TRUE))>>
                   ELSE <<>>
            /\ UNCHANGED <<contexts, polling_events, devices, initialized,
                           pollers>>

\* s: the Option<IpcSender>; with None nothing is sent back
HandleExitPresent ==
    \E c \in Contexts, d \in DeviceIds, s \in {NoSender, CallerSender},
       sent \in BOOLEAN, notified \in BOOLEAN :
        LET r == access_check(c, d)
            fanout == r = "Ok" /\ sent
        IN  /\ Recv(ExitPresent(c, d, s))
            /\ s = NoSender => sent
            /\ ~fanout => notified
            /\ queue' = Tail(queue)
            /\ presenting' = IF r = "Ok" THEN presenting_remove(d)
                                         ELSE presenting
            /\ status' = Outcome(sent /\ notified)
            /\ handled' = IF s = NoSender
                        THEN Handled(ExitPresent(c, d, s), NoReply, FALSE)
                        ELSE Handled(ExitPresent(c, d, s), r, sent)
            /\ events_out' =
                   IF fanout /\ notified
                   THEN <<WebVREvent(contexts,
                                     DisplayEvent("PresentChange", d, FALSE))>>
                   ELSE <<>>
            /\ UNCHANGED <<contexts, polling_events, devices, initialized,
                           pollers>>

HandleExit ==
    /\ Recv(Exit)
    /\ queue' = Tail(queue)
    /\ status' = "exited"
    /\ handled' = Handled(Exit, NoReply, FALSE)
    /\ events_out' = <<>>
    /\ UNCHANGED <<contexts, polling_events, presenting, devices, initialized,
                   pollers>>

\* ---------------------------------------------------------- the hardware
\* what self.service.poll_events() can hand back in the current state: a
\* Connect for a display not known yet, any other event for a known one
HardwareEvents ==
    {DisplayEvent("Connect", d, FALSE) : d \in DeviceIds \ devices} \cup
    {DisplayEvent(k, d, FALSE) :
        k \in EventKinds \ {"Connect", "PresentChange"}, d \in devices} \cup
    {DisplayEvent("PresentChange", d, b) : d \in devices, b \in BOOLEAN}

EventBatches == UNION {[1..n -> HardwareEvents] : n \in 0..MaxEvents}

Connected(evs) == {evs[i].display : i \in {j \in DOMAIN evs : evs[j].event = "Connect"}}
Disconnected(evs) ==
    {evs[i].display : i \in {j \in DOMAIN evs : evs[j].event = "Disconnect"}}

\* poll_events: the service drains evs; a display it reported disconnected
\* may stop being known to get_device (gone). Each event goes to the
\* constellation before the flag is written and the poller answered.
HandlePollEvents ==
    \E p \in PollerIds, evs \in EventBatches, notified \in BOOLEAN :
      \E gone \in SUBSET Disconnected(evs) :
        /\ Recv(PollEvents(p))
        /\ evs = <<>> => notified
        /\ queue' = Tail(queue)
        /\ devices' = (devices \cup Connected(evs)) \ gone
        /\ status' = Outcome(notified)
        /\ events_out' = IF notified
                         THEN [i \in DOMAIN evs |-> WebVREvent(contexts, evs[i])]
                         ELSE <<>>
        /\ IF notified
           THEN /\ polling_events' = still_polling
                /\ pollers' = [pollers EXCEPT ![p].reply =
                                  IF still_polling THEN "true" ELSE "false"]
                /\ handled' = Handled(PollEvents(p),
                                   IF still_polling THEN "true" ELSE "false",
                                   TRUE)
           ELSE /\ UNCHANGED <<polling_events, pollers>>
                /\ handled' = Handled(PollEvents(p), NoReply, FALSE)
        /\ UNCHANGED <<contexts, presenting, initialized>>

\* a step of another thread: the dispatcher handled nothing in it
Observed ==
    /\ handled' = [msg |-> NoMsg, reply |-> NoReply, delivered |-> FALSE,
                   before |-> NotHandled]
    /\ events_out' = <<>>

\* ----------------------------------------------- the WebVRPollEvents thread
\* webvr_thread.send(PollEvents(sender.clone())): is_err() once the receiver
\* is dropped, and the thread breaks out of its loop
PollerSend ==
    \E p \in PollerIds :
        /\ pollers[p].pc = "send"
        /\ IF status = "running"
           THEN /\ Len(queue) < MaxQueue
                /\ queue' = Append(queue, PollEvents(p))
                /\ pollers' = [pollers EXCEPT ![p].pc = "wait"]
           ELSE /\ pollers' = [pollers EXCEPT ![p].pc = "free"]
                /\ UNCHANGED queue
        /\ Observed
        /\ UNCHANGED <<contexts, polling_events, presenting, devices,
                       initialized, status>>

\* a thread that ends after its first answer, whatever the answer is
PollerRecv_once ==
    \E p \in PollerIds :
        /\ pollers[p].pc = "wait"
        /\ pollers[p].reply # "none"
        /\ pollers' = [pollers EXCEPT ![p] = [pc |-> "free", reply |-> "none"]]
        /\ Observed
        /\ UNCHANGED <<queue, contexts, polling_events, presenting, devices,
                       initialized, status>>

\* receiver.recv().unwrap_or(false): true sleeps and loops, false breaks.
\* The thread keeps its own sender, so recv never fails: without an answer
\* the thread stays here.
PollerRecv ==
    \E p \in PollerIds :
        /\ pollers[p].pc = "wait"
        /\ pollers[p].reply # "none"
        /\ pollers' = [pollers EXCEPT ![p] =
                          [pc |-> IF pollers[p].reply = "true" THEN "sleep"
                                                               ELSE "free",
                           reply |-> "none"]]
        /\ Observed
        /\ UNCHANGED <<queue, contexts, polling_events, presenting, devices,
                       initialized, status>>

\* a thread that ends when its sleep is over
PollerWake_ending ==
    \E p \in PollerIds :
        /\ pollers[p].pc = "sleep"
        /\ pollers' = [pollers EXCEPT ![p].pc = "free"]
        /\ Observed
        /\ UNCHANGED <<queue, contexts, polling_events, presenting, devices,
                       initialized, status>>

\* thread::sleep(500 ms) is over
PollerWake ==
    \E p \in PollerIds :
        /\ pollers[p].pc = "sleep"
        /\ pollers' = [pollers EXCEPT ![p].pc = "send"]
        /\ Observed
        /\ UNCHANGED <<queue, contexts, polling_events, presenting, devices,
                       initialized, status>>

\* ------------------------------------------------------------- the callers
\* a script thread sends a request; sending fails once the receiver is gone
CallerSend ==
    \E m \in CallerMessages :
        /\ status = "running"
        /\ Len(queue) < MaxQueue
        /\ queue' = Append(queue, m)
        /\ Observed
        /\ UNCHANGED <<contexts, polling_events, presenting, devices,
                       initialized, status, pollers>>

\* the constellation shuts the thread down
SendExit ==
    /\ status = "running"
    /\ Len(queue) < MaxQueue
    /\ queue' = Append(queue, Exit)
    /\ Observed
    /\ UNCHANGED <<contexts, polling_events, presenting, devices,
                   initialized, status, pollers>>

\* the match in WebVRThread::start
Dispatch ==
    \/ HandleRegisterContext
    \/ HandleUnregisterContext
    \/ HandlePollEvents
    \/ HandleGetVRDisplays
    \/ HandleGetFrameData
    \/ HandleResetPose
    \/ HandleRequestPresent
    \/ HandleExitPresent
    \/ HandleExit

\* the script threads' VRDisplays and the compositor handler stand still
Elsewhere == UNCHANGED <<script_vars, compositor_vars>>

Next ==
    \/ HandleRegisterContext /\ Elsewhere
    \/ HandleUnregisterContext /\ Elsewhere
    \/ HandlePollEvents /\ Elsewhere
    \/ HandleGetVRDisplays /\ Elsewhere
    \/ HandleGetFrameData /\ Elsewhere
    \/ HandleResetPose /\ Elsewhere
    \/ HandleRequestPresent /\ Elsewhere
    \/ HandleExitPresent /\ Elsewhere
    \/ HandleExit /\ Elsewhere
    \/ PollerSend /\ Elsewhere
    \/ PollerRecv /\ Elsewhere
    \/ PollerWake /\ Elsewhere
    \/ CallerSend /\ Elsewhere
    \/ SendExit /\ Elsewhere

Spec == Init /\ [][Next]_vars

\* ------------------------------------- the scheduler seen on its own
\* what a script thread sends when a global scope with VR comes and goes
RegistrationMessages ==
    {RegisterContext(c) : c \in Contexts} \cup
    {UnregisterContext(c) : c \in Contexts}

\* CallerSend for these messages alone
RegistrationSend ==
    \E m \in RegistrationMessages :
        /\ status = "running"
        /\ Len(queue) < MaxQueue
        /\ queue' = Append(queue, m)
        /\ Observed
        /\ UNCHANGED <<contexts, polling_events, presenting, devices,
                       initialized, status, pollers>>

\* The threads are scheduled: the dispatcher takes a message that is waiting
\* and each WebVRPollEvents thread makes its next step. A send on the
\* channel never has to wait; in the model it waits for room in the bounded
\* queue, which the dispatcher makes again and again, hence SF.
Scheduling ==
    /\ WF_vars(Dispatch /\ Elsewhere)
    /\ SF_vars(PollerSend /\ Elsewhere)
    /\ WF_vars(PollerRecv /\ Elsewhere)
    /\ WF_vars(PollerWake /\ Elsewhere)

\* the dispatcher with RegisterContext, UnregisterContext and the poll
\* ticks as its only traffic
PollNext ==
    \/ HandleRegisterContext /\ Elsewhere
    \/ HandleUnregisterContext /\ Elsewhere
    \/ HandlePollEvents /\ Elsewhere
    \/ PollerSend /\ Elsewhere
    \/ PollerRecv /\ Elsewhere
    \/ PollerWake /\ Elsewhere
    \/ RegistrationSend /\ Elsewhere

PollSpec == Init /\ [][PollNext]_vars /\ Scheduling

\* the same traffic, and the constellation shutting the thread down
ShutdownNext ==
    \/ PollNext
    \/ SendExit /\ Elsewhere
    \/ HandleExit /\ Elsewhere

ShutdownSpec == Init /\ [][ShutdownNext]_vars /\ Scheduling

TypeOK ==
    /\ contexts \subseteq Contexts
    /\ polling_events \in BOOLEAN
    /\ presenting \in [DeviceIds -> Contexts \cup {NoOwner}]
    /\ devices \subseteq DeviceIds
    /\ Len(queue) <= MaxQueue
    /\ status \in {"running", "exited", "panicked"}

\* ------------------------------------------- the VRDisplay of a script thread
\* no DOM event fired
NoEvent == "none"

\* the VRDisplay while it presents (init_present, or a PresentChange(true))
VRDisplay_presenting == [VRDisplay_new EXCEPT !.presenting = TRUE]

\* update_display: the whole VRDisplayData is replaced by the event's
update_display(self, ev) ==
    [self EXCEPT !.display = [data |-> ev, connected |-> "data"]]

\* VRDisplayEvent::new_from_webvr: the DOM event type, or the panic!
new_from_webvr(k) ==
    CASE k = "Connect" -> "onvrdisplayconnect"
      [] k = "Disconnect" -> "onvrdisplaydisconnect"
      [] k = "Activate" -> "onvrdisplayactivate"
      [] k = "Deactivate" -> "onvrdisplaydeactivate"
      [] k = "Blur" -> "onvrdisplayblur"
      [] k = "Focus" -> "onvrdisplayfocus"
      [] k = "PresentChange" -> "onvrdisplaypresentchange"
      [] OTHER -> "panic"

\* a handle_webvr_event that notifies JS of every event
handle_webvr_event_notify_all(self, ev) ==
    [self |-> update_display(self, ev), fired |-> new_from_webvr(ev.event)]

\* VRDisplay::handle_webvr_event: the VRDisplay after the event, and the DOM
\* event notify_event fired (NoEvent where it is not called)
handle_webvr_event(self, ev) ==
    CASE ev.event = "Connect" ->
             [self |-> update_display(self, ev), fired |-> NoEvent]
      [] ev.event = "Disconnect" ->
             [self |-> [self EXCEPT !.display.connected = FALSE],
              fired |-> NoEvent]
      [] ev.event \in {"Activate", "Deactivate", "Blur", "Focus"} ->
             [self |-> update_display(self, ev),
              fired |-> new_from_webvr(ev.event)]
      [] ev.event = "PresentChange" ->
             [self |-> [update_display(self, ev) EXCEPT
                            !.presenting = ev.presenting],
              fired |-> new_from_webvr(ev.event)]
      [] ev.event = "Change" ->
             [self |-> update_display(self, ev), fired |-> NoEvent]

\* ------------------------------------------------ the VRDisplay methods
MaxBounds == 5
MaxLayers == 2
MaxInbox == 2

\* Option<Vec<Finite<f32>>>: no array, or an array of n values (the i-th
\* value is i)
None == [some |-> FALSE, values |-> <<>>]
Some(values) == [some |-> TRUE, values |-> values]
BoundsInputs == {None} \cup {Some([i \in 1..n |-> i]) : n \in 0..MaxBounds}

\* the VRLayer dictionaries a page can pass: source is a canvas that gives a
\* WebGL context ("webgl") or anything else ("none")
LayerInputs ==
    [source : {"webgl", "none"}, leftBounds : BoundsInputs,
     rightBounds : BoundsInputs]

\* the layers used where the bounds are not the matter: the default bounds
\* or four values for the left eye, with and without a WebGL source
PresentLayers ==
    [source : {"webgl", "none"},
     leftBounds : {None, Some(<<1, 2, 3, 4>>)},
     rightBounds : {None}]

BoundsError ==
    "The number of values in the leftBounds/rightBounds arrays must be 0 or 4"
SourceError == "VRLayer source must be a WebGL Context"

\* parse_bounds: dst[i] = values[i] for i in 0..4 is an index out of bounds,
\* a panic, when fewer than four values are there
parse_bounds(src, dst) ==
    IF ~src.some
    THEN [result |-> "Ok", dst |-> dst]
    ELSE IF Len(src.values) = 0
    THEN [result |-> "Ok", dst |-> dst]
    ELSE IF Len(src.values) > 4
    THEN [result |-> BoundsError, dst |-> dst]
    ELSE IF \E i \in 1..4 : i \notin DOMAIN src.values
    THEN [result |-> "panic", dst |-> dst]
    ELSE [result |-> "Ok", dst |-> [i \in 1..4 |-> src.values[i]]]

\* validate_layer: the WebGL context first, then the left and the right
\* bounds, each try! returning the first failure
validate_layer(layer) ==
    IF layer.source # "webgl"
    THEN [result |-> SourceError, layer |-> DefaultLayer]
    ELSE LET left == parse_bounds(layer.leftBounds, DefaultLayer.left_bounds)
             right == parse_bounds(layer.rightBounds,
                                   DefaultLayer.right_bounds)
         IN  IF left.result # "Ok"
             THEN [result |-> left.result, layer |-> DefaultLayer]
             ELSE IF right.result # "Ok"
             THEN [result |-> right.result, layer |-> DefaultLayer]
             ELSE [result |-> "Ok",
                   layer |-> [left_bounds |-> left.dst,
                              right_bounds |-> right.dst]]

\* the script thread of context c after a method: returned with its promise,
\* blocked in receiver.recv(), or unwound by a panic
Returned(method, d, layer, promise, error) ==
    [pc |-> "idle", method |-> method, device_id |-> d, args |-> layer,
     reply |-> NoReply, promise |-> promise, error |-> error]
Waiting(method, d, layer) ==
    [pc |-> "waiting", method |-> method, device_id |-> d, args |-> layer,
     reply |-> NoReply, promise |-> "pending", error |-> "none"]
Panicked(method, d, layer) ==
    [pc |-> "panicked", method |-> method, device_id |-> d, args |-> layer,
     reply |-> NoReply, promise |-> "pending", error |-> "none"]

\* calls once another step is taken: a method that had returned is no
\* longer the one that returned in the last step
Forget ==
    [c \in Contexts |-> IF calls[c].pc = "idle" THEN NoCall ELSE calls[c]]

\* a request is sent while the channel and the event backlog it may add to
\* have room
SendRoom ==
    /\ Len(queue) < MaxQueue
    /\ \A c \in Contexts : Len(inbox[c]) + Len(queue) < MaxInbox

\* what the method leaves alone
ScriptStep ==
    /\ Observed
    /\ UNCHANGED <<contexts, polling_events, presenting, devices,
                   initialized, status, pollers, compositor_vars>>

\* a VRDisplay that never takes itself to be presenting
presenting_get_never(self) == FALSE

\* self.presenting.get()
presenting_get(self) == self.presenting

\* VRDisplay::RequestPresent up to its return or its receiver.recv(), for
\* the script threads Callers and the layers Layers; webvr_thread:
\* self.webvr_thread() is Some
VRDisplay_RequestPresent(Callers, Layers) ==
    \E c \in Callers, d \in DeviceIds, can_present \in BOOLEAN,
       layers \in 0..MaxLayers :
        LET self == displays[<<c, d>>]
            m == "RequestPresent"
            reject(layer, msg) ==
                /\ calls' = [Forget EXCEPT
                                ![c] = Returned(m, d, layer, "rejected", msg)]
                /\ UNCHANGED <<queue, displays>>
            panic(layer) ==
                /\ calls' = [Forget EXCEPT ![c] = Panicked(m, d, layer)]
                /\ UNCHANGED <<queue, displays>>
        IN  /\ calls[c].pc = "idle"
            /\ ScriptStep
            /\ UNCHANGED inbox
            /\ IF ~can_present
               THEN reject(NoCall.args, "VRDisplay canPresent is false")
               ELSE IF layers # 1
               THEN reject(NoCall.args, "The number of layers must be 1")
               ELSE \E layer \in Layers, webvr_thread \in BOOLEAN :
                 LET v == validate_layer(layer)
                 IN  IF v.result = "panic"
                     THEN panic(layer)
                     ELSE IF v.result # "Ok"
                     THEN reject(layer, v.result)
                     ELSE IF presenting_get(self)
                     THEN /\ displays' = [displays EXCEPT
                                             ![<<c, d>>].layer = v.layer]
                          /\ calls' = [Forget EXCEPT
                                 ![c] = Returned(m, d, layer, "resolved",
                                                 "none")]
                          /\ UNCHANGED queue
                     ELSE IF ~webvr_thread
                     THEN reject(layer, "Not available")
                     ELSE IF status # "running"
                     THEN panic(layer)
                     ELSE /\ SendRoom
                          /\ queue' = Append(queue, RequestPresent(c, d))
                          /\ calls' = [Forget EXCEPT
                                          ![c] = Waiting(m, d, layer)]
                          /\ UNCHANGED displays

\* the rest of RequestPresent once the reply is there: Ok stores the layer
\* and calls init_present, and the promise is returned as it is; an error
\* rejects it
VRDisplay_RequestPresent_recv ==
    \E c \in Contexts :
        LET call == calls[c]
            d == call.device_id
        IN  /\ call.pc = "waiting"
            /\ call.method = "RequestPresent"
            /\ call.reply # NoReply
            /\ ScriptStep
            /\ UNCHANGED <<queue, inbox>>
            /\ IF call.reply = "Ok"
               THEN /\ displays' = [displays EXCEPT
                           ![<<c, d>>].layer = validate_layer(call.args).layer,
                           ![<<c, d>>].presenting = TRUE]
                    /\ calls' = [Forget EXCEPT
                           ![c] = Returned(call.method, d, call.args,
                                           "pending", "none")]
               ELSE /\ calls' = [Forget EXCEPT
                           ![c] = Returned(call.method, d, call.args,
                                           "rejected", call.reply)]
                    /\ UNCHANGED displays

\* VRDisplay::ExitPresent up to its return or its receiver.recv()
VRDisplay_ExitPresent ==
    \E c \in Contexts, d \in DeviceIds, webvr_thread \in BOOLEAN :
        LET self == displays[<<c, d>>]
            m == "ExitPresent"
            reject(msg) ==
                /\ calls' = [Forget EXCEPT
                       ![c] = Returned(m, d, NoCall.args, "rejected", msg)]
                /\ UNCHANGED queue
        IN  /\ calls[c].pc = "idle"
            /\ ScriptStep
            /\ UNCHANGED <<inbox, displays>>
            /\ IF ~presenting_get(self)
               THEN reject("VRDisplay is not presenting")
               ELSE IF ~webvr_thread
               THEN reject("Not available")
               ELSE IF status # "running"
               THEN /\ calls' = [Forget EXCEPT
                                    ![c] = Panicked(m, d, NoCall.args)]
                    /\ UNCHANGED queue
               ELSE /\ SendRoom
                    /\ queue' = Append(queue, ExitPresent(c, d, CallerSender))
                    /\ calls' = [Forget EXCEPT
                                    ![c] = Waiting(m, d, NoCall.args)]

\* an ExitPresent that gives the display up whatever the dispatcher answers
VRDisplay_ExitPresent_recv_always ==
    \E c \in Contexts :
        LET call == calls[c]
            d == call.device_id
        IN  /\ call.pc = "waiting"
            /\ call.method = "ExitPresent"
            /\ call.reply # NoReply
            /\ ScriptStep
            /\ UNCHANGED <<queue, inbox>>
            /\ displays' = [displays EXCEPT ![<<c, d>>].presenting = FALSE]
            /\ calls' = [Forget EXCEPT
                   ![c] = Returned(call.method, d, call.args,
                                   "resolved", "none")]

\* the rest of ExitPresent once the reply is there: Ok calls stop_present
\* and resolves the promise, an error rejects it
VRDisplay_ExitPresent_recv ==
    \E c \in Contexts :
        LET call == calls[c]
            d == call.device_id
        IN  /\ call.pc = "waiting"
            /\ call.method = "ExitPresent"
            /\ call.reply # NoReply
            /\ ScriptStep
            /\ UNCHANGED <<queue, inbox>>
            /\ IF call.reply = "Ok"
               THEN /\ displays' = [displays EXCEPT
                           ![<<c, d>>].presenting = FALSE]
                    /\ calls' = [Forget EXCEPT
                           ![c] = Returned(call.method, d, call.args,
                                           "resolved", "none")]
               ELSE /\ calls' = [Forget EXCEPT
                           ![c] = Returned(call.method, d, call.args,
                                           "rejected", call.reply)]
                    /\ UNCHANGED displays

\* receiver.recv().unwrap() when the WebVR thread ended without answering
VRDisplay_recv_failed ==
    \E c \in Contexts :
        /\ calls[c].pc = "waiting"
        /\ calls[c].reply = NoReply
        /\ status # "running"
        /\ ScriptStep
        /\ calls' = [Forget EXCEPT
               ![c] = Panicked(calls[c].method, calls[c].device_id,
                               calls[c].args)]
        /\ UNCHANGED <<queue, inbox, displays>>

\* a script thread that is in no method takes the next event sent to it,
\* and the VRDisplay of that display handles it
VRDisplay_handle_webvr_event ==
    \E c \in Contexts :
        /\ calls[c].pc = "idle"
        /\ inbox[c] # <<>>
        /\ LET ev == Head(inbox[c])
               w == <<c, ev.display>>
           IN  displays' = [displays EXCEPT
                               ![w] = handle_webvr_event(displays[w], ev).self]
        /\ inbox' = [inbox EXCEPT ![c] = Tail(inbox[c])]
        /\ ScriptStep
        /\ calls' = Forget
        /\ UNCHANGED queue

\* the events of out that are addressed to context c
EventsFor(out, c) ==
    LET mine == SelectSeq(out, LAMBDA e : c \in e.pipeline_ids)
    IN  [i \in DOMAIN mine |-> mine[i].event]

\* what a handler's reply and events do outside the WebVR thread: the reply
\* reaches the script thread that waits for it, the events go to the
\* contexts they are addressed to
Answered ==
    /\ handled'.delivered
    /\ calls' = [Forget EXCEPT ![handled'.msg.pipeline].reply = handled'.reply]
    /\ inbox' = [c \in Contexts |-> inbox[c] \o EventsFor(events_out', c)]
    /\ UNCHANGED <<displays, compositor_vars>>

\* the script thread of a context that is not registered registers it
ScriptRegister ==
    \E c \in Contexts \ contexts :
        /\ status = "running"
        /\ Len(queue) < MaxQueue
        /\ \A i \in DOMAIN queue : queue[i] # RegisterContext(c)
        /\ queue' = Append(queue, RegisterContext(c))
        /\ ScriptStep

\* a step that no VRDisplay takes part in
Quiet ==
    /\ calls' = Forget
    /\ UNCHANGED <<displays, inbox, compositor_vars>>

\* the dispatcher with the script threads that register, present and stop
\* presenting through their VRDisplays
ScriptNext ==
    \/ HandleRegisterContext /\ Quiet
    \/ HandleRequestPresent /\ Answered
    \/ HandleExitPresent /\ Answered
    \/ ScriptRegister /\ Quiet
    \/ VRDisplay_RequestPresent(Contexts, PresentLayers)
    \/ VRDisplay_RequestPresent_recv
    \/ VRDisplay_ExitPresent
    \/ VRDisplay_ExitPresent_recv
    \/ VRDisplay_recv_failed
    \/ VRDisplay_handle_webvr_event

ScriptSpec == Init /\ [][ScriptNext]_vars

\* one script thread calling RequestPresent with every layer a page can
\* pass
LayerNext ==
    \/ VRDisplay_RequestPresent({1}, LayerInputs)
    \/ HandleRequestPresent /\ Answered
    \/ VRDisplay_RequestPresent_recv

LayerSpec == Init /\ [][LayerNext]_vars

\* ------------------------------------------- the WebVRCompositorHandler
\* static mut VR_MANAGER: set to &mut self.service before the loop, reset to
\* null after it; a panic unwinds past the reset
VR_MANAGER == IF status = "exited" THEN "null" ELSE "service"

\* the requests whose handler works on a device once access_check let it
\* through
DeviceRequests ==
    {GetFrameData(c, d) : c \in Contexts, d \in DeviceIds} \cup
    {ResetPose(c, d) : c \in Contexts, d \in DeviceIds} \cup
    {RequestPresent(c, d) : c \in Contexts, d \in DeviceIds} \cup
    {ExitPresent(c, d, CallerSender) : c \in Contexts, d \in DeviceIds}

\* the dispatcher is about to work on the device of the oldest message
DeviceWork ==
    /\ queue # <<>>
    /\ Head(queue) \in DeviceRequests
    /\ access_check(Head(queue).pipeline, Head(queue).device_id) = "Ok"

\* CallerSend for these requests alone
DeviceSend ==
    \E m \in DeviceRequests :
        /\ status = "running"
        /\ Len(queue) < MaxQueue
        /\ queue' = Append(queue, m)
        /\ Observed
        /\ UNCHANGED <<contexts, polling_events, presenting, devices,
                       initialized, status, pollers>>

\* the handler has got to device.borrow() (display_data,
\* inmediate_frame_data) or, for ResetPose, device.borrow_mut()
webvr_borrow ==
    /\ status = "running"
    /\ DeviceWork
    /\ inside.webvr = NoAccess
    /\ inside' = [inside EXCEPT
                     !.webvr = [device_id |-> Head(queue).device_id,
                                write |-> Head(queue).kind = "ResetPose"]]
    /\ Observed
    /\ UNCHANGED <<queue, contexts, polling_events, presenting, devices,
                   initialized, status, pollers, script_vars, compositors>>

\* the handler runs to its end: it has been working on its device, and the
\* borrow ends with it
Released ==
    /\ DeviceWork => inside.webvr.device_id = Head(queue).device_id
    /\ inside' = [inside EXCEPT !.webvr = NoAccess]
    /\ UNCHANGED <<script_vars, compositors>>

\* create_compositor: nothing while VR_MANAGER is null; else the pointer of
\* the device get_device finds is stored. After a panic VR_MANAGER points
\* to a service that was dropped, and the read yields anything.
create_compositor ==
    \E device_id \in DeviceIds :
        /\ compositors' \in
               IF VR_MANAGER = "null"
               THEN {compositors}
               ELSE IF status = "running"
               THEN {IF device_id \in devices
                     THEN compositors \cup {device_id}
                     ELSE compositors}
               ELSE {compositors, compositors \cup {device_id}}
        /\ Observed
        /\ UNCHANGED <<queue, contexts, polling_events, presenting, devices,
                       initialized, status, pollers, script_vars, inside>>

\* SyncPoses and SubmitFrame (with a texture) for a compositor id that is
\* mapped: (**compositor).sync_poses() / submit_frame() through the raw
\* pointer, which no borrow flag guards
handler_enter ==
    \E compositor_id \in compositors :
        /\ inside.handler = NoAccess
        /\ inside' = [inside EXCEPT
                         !.handler = [device_id |-> compositor_id,
                                      write |-> TRUE]]
        /\ Observed
        /\ UNCHANGED <<queue, contexts, polling_events, presenting, devices,
                       initialized, status, pollers, script_vars,
                       compositors>>

\* the command is done
handler_leave ==
    /\ inside.handler # NoAccess
    /\ inside' = [inside EXCEPT !.handler = NoAccess]
    /\ Observed
    /\ UNCHANGED <<queue, contexts, polling_events, presenting, devices,
                   initialized, status, pollers, script_vars, compositors>>

\* Release: the id is unmapped
handler_release ==
    \E compositor_id \in DeviceIds :
        /\ inside.handler = NoAccess
        /\ compositors' = compositors \ {compositor_id}
        /\ Observed
        /\ UNCHANGED <<queue, contexts, polling_events, presenting, devices,
                       initialized, status, pollers, script_vars, inside>>

\* the dispatcher serving device requests while the compositor handler, on
\* the render thread, serves the commands of the WebGL side
CompositorNext ==
    \/ DeviceSend /\ Elsewhere
    \/ SendExit /\ Elsewhere
    \/ webvr_borrow
    \/ HandleGetFrameData /\ Released
    \/ HandleResetPose /\ Released
    \/ HandleRequestPresent /\ Released
    \/ HandleExitPresent /\ Released
    \/ HandleExit /\ Released
    \/ create_compositor
    \/ handler_enter
    \/ handler_leave
    \/ handler_release

CompositorSpec == Init /\ [][CompositorNext]_vars

\* ================================================================== claims
\* the step is the dispatcher handling m
Handles(m) ==
    /\ Recv(m)
    /\ queue' = Tail(queue)
    /\ handled'.msg = m

\* C1. Exclusivity: a RequestPresent(a, d) answered Ok records d -> a; the
\* entry d -> a stays until the dispatcher handles an ExitPresent(a, d); and
\* while it is there every RequestPresent(b, d) of another context b is
\* answered DeviceBusy and leaves the ownership map as it was.
C1_Exclusivity ==
    [][\A a \in Contexts, d \in DeviceIds :
        /\ (Handles(RequestPresent(a, d)) /\ handled'.reply = "Ok")
               => presenting'[d] = a
        /\ (presenting[d] = a /\ presenting'[d] # a)
               => \E s \in {NoSender, CallerSender} :
                      Handles(ExitPresent(a, d, s))
        /\ \A b \in Contexts \ {a} :
               (presenting[d] = a /\ Handles(RequestPresent(b, d)))
                   => /\ handled'.reply = DeviceBusy
                      /\ presenting' = presenting
      ]_vars

\* C1 witness: another context's RequestPresent has just been refused with
\* DeviceBusy while the owner keeps the device.
C1_Witness ==
    /\ handled.msg.kind = "RequestPresent"
    /\ handled.reply = DeviceBusy
    /\ handled.delivered
    /\ presenting[handled.msg.device_id] \in Contexts \ {handled.msg.pipeline}

\* C2. Two RequestPresent for the same unowned, known device from different
\* contexts, both in flight: whichever the dispatcher takes first is
\* answered Ok and becomes the owner, and the other, taken next, is answered
\* DeviceBusy; never both Ok, never both an error.
C2_ConcurrentRequestPresent ==
    [][\A a \in Contexts, d \in DeviceIds : \A b \in Contexts \ {a} :
        /\ ( /\ Len(queue) >= 2
             /\ queue[2] = RequestPresent(b, d)
             /\ presenting[d] = NoOwner
             /\ d \in devices
             /\ Handles(RequestPresent(a, d)) )
               => /\ handled'.reply = "Ok"
                  /\ presenting'[d] = a
        /\ ( /\ handled.msg = RequestPresent(a, d)
             /\ handled.reply = "Ok"
             /\ Handles(RequestPresent(b, d)) )
               => /\ handled'.reply = DeviceBusy
                  /\ presenting'[d] = a
      ]_vars

\* C2 witness: both requests were taken back to back, the first answered Ok,
\* the second DeviceBusy.
C2_Witness ==
    /\ handled.msg.kind = "RequestPresent"
    /\ handled.before.msg.kind = "RequestPresent"
    /\ handled.before.msg.device_id = handled.msg.device_id
    /\ handled.before.msg.pipeline # handled.msg.pipeline
    /\ handled.before.reply = "Ok"
    /\ handled.reply = DeviceBusy
    /\ handled.delivered

\* C3. RequestPresent(a, d) for a known device that no other context owns
\* is answered Ok and records d -> a, touching no other entry; handled again
\* right after, it is answered Ok again and the ownership map is unchanged.
C3_IdempotentReacquire ==
    [][\A a \in Contexts, d \in DeviceIds :
        /\ ( /\ d \in devices
             /\ presenting[d] \in {NoOwner, a}
             /\ Handles(RequestPresent(a, d)) )
               => /\ handled'.reply = "Ok"
                  /\ presenting' = [presenting EXCEPT ![d] = a]
        /\ ( /\ handled.msg = RequestPresent(a, d)
             /\ handled.reply = "Ok"
             /\ Handles(RequestPresent(a, d)) )
               => /\ handled'.reply = "Ok"
                  /\ presenting' = presenting
                  /\ presenting'[d] = a
      ]_vars

\* C3 witness: the same RequestPresent handled twice in a row, Ok both times.
C3_Witness ==
    /\ handled.msg.kind = "RequestPresent"
    /\ handled.before.msg = handled.msg
    /\ handled.before.reply = "Ok"
    /\ handled.reply = "Ok"
    /\ handled.delivered
    /\ presenting[handled.msg.device_id] = handled.msg.pipeline

\* C4 as claimed: an ExitPresent(a, d) carrying a reply channel, from a
\* context a that does not hold d (d unowned, or owned by another context),
\* is answered with an error.
C4_ExitWithoutSessionFails ==
    [][\A a \in Contexts, d \in DeviceIds :
        ( /\ presenting[d] # a
          /\ Handles(ExitPresent(a, d, CallerSender))
          /\ status' = "running" )
            => handled'.reply \in {DeviceBusy, DeviceNotFound}
      ]_vars

\* C5. An ExitPresent(a, d) answered Ok leaves d unowned; d stays unowned
\* until a RequestPresent for d is handled; and a RequestPresent(b, d) for an
\* unowned, known d is answered Ok and records d -> b, for every context b.
C5_PresentAfterExit ==
    [][\A d \in DeviceIds :
        /\ \A a \in Contexts :
               ( /\ Handles(ExitPresent(a, d, CallerSender))
                 /\ handled'.reply = "Ok" )
                   => presenting'[d] = NoOwner
        /\ (presenting[d] = NoOwner /\ presenting'[d] # NoOwner)
               => \E b \in Contexts : Handles(RequestPresent(b, d))
        /\ \A b \in Contexts :
               ( /\ presenting[d] = NoOwner
                 /\ d \in devices
                 /\ Handles(RequestPresent(b, d)) )
                   => /\ handled'.reply = "Ok"
                      /\ presenting'[d] = b
      ]_vars

\* C5 witness: an ExitPresent answered Ok to the owner, and right after it
\* a RequestPresent of another context answered Ok.
C5_Witness ==
    /\ handled.msg.kind = "RequestPresent"
    /\ handled.reply = "Ok"
    /\ handled.delivered
    /\ handled.before.msg.kind = "ExitPresent"
    /\ handled.before.msg.sender = CallerSender
    /\ handled.before.reply = "Ok"
    /\ handled.before.msg.device_id = handled.msg.device_id
    /\ handled.before.msg.pipeline # handled.msg.pipeline
    /\ presenting[handled.msg.device_id] = handled.msg.pipeline

\* the requests that go through access_check and carry a reply channel
AccessRequests(c, d) ==
    {GetFrameData(c, d), ResetPose(c, d), RequestPresent(c, d),
     ExitPresent(c, d, CallerSender)}

\* C6 as claimed: a request naming a device id the registry does not know
\* is answered DeviceNotFound, whatever the ownership map holds.
C6_UnknownDeviceNotFound ==
    [][\A c \in Contexts, d \in DeviceIds : \A m \in AccessRequests(c, d) :
        (d \notin devices /\ Handles(m) /\ status' = "running")
            => handled'.reply = DeviceNotFound
      ]_vars

\* C7. GetFrameData(c, d) and ResetPose(c, d) are answered Ok exactly when d
\* is known and is unowned or owned by c; a context other than the owner is
\* refused; and neither request changes the ownership map.
C7_FrameDataAccess ==
    [][\A c \in Contexts, d \in DeviceIds :
       \A m \in {GetFrameData(c, d), ResetPose(c, d)} :
        Handles(m) =>
            /\ handled'.reply = "Ok"
                   <=> (d \in devices /\ presenting[d] \in {NoOwner, c})
            /\ presenting[d] \in Contexts \ {c} => handled'.reply # "Ok"
            /\ presenting' = presenting
      ]_vars

\* C7 witness: a GetFrameData or ResetPose of a context other than the
\* owner has just been refused.
C7_Witness ==
    /\ handled.msg.kind \in {"GetFrameData", "ResetPose"}
    /\ handled.reply # "Ok"
    /\ handled.delivered
    /\ handled.msg.device_id \in devices
    /\ presenting[handled.msg.device_id] \in Contexts \ {handled.msg.pipeline}

\* C8 as claimed, in the form a finite run refutes: the handler of a
\* request that carries a reply channel sends a reply, and when the loop
\* has ended no request carrying a reply channel is left in the queue (it
\* can never be answered).
C8_EveryRequestAnswered ==
    /\ handled.msg.sender # NoSender => handled.reply # NoReply
    /\ status = "exited"
           => \A i \in DOMAIN queue : queue[i].sender = NoSender

\* C9 as claimed: only Exit ends the dispatcher loop (the thread keeps a
\* sender of its own, so the inbound channel is never lost).
C9_OnlyExitEndsLoop ==
    [][(status = "running" /\ status' # "running") => Handles(Exit)]_vars

\* C10 as claimed: while the polling flag is set, a context is registered.
C10_PollingImpliesRegistered ==
    polling_events => contexts # {}

\* C10 amended: when a PollEvents has just been answered and the polling
\* flag is still set, a context is registered.
C10_PollingAfterTick ==
    (handled.msg.kind = "PollEvents" /\ handled.delivered /\ polling_events)
        => contexts # {}

\* C10 witness: a PollEvents has just been answered true.
C10_Witness ==
    /\ handled.msg.kind = "PollEvents"
    /\ handled.reply = "true"
    /\ polling_events
    /\ contexts # {}

\* the step is a WebVRPollEvents thread taking the answer false
TakesFalse(p) ==
    /\ pollers[p].reply = "false"
    /\ pollers'[p] # pollers[p]

\* C11, the part the claim and its amendment share: with the hardware layer
\* initialised a handled RegisterContext leaves the polling flag set; every
\* answer to a PollEvents handled with no context registered is false and
\* clears the flag; and the thread that takes the answer false ends without
\* sending another PollEvents.
C11_ActiveThenLastTick ==
    /\ \A c \in Contexts :
           (Handles(RegisterContext(c)) /\ initialized) => polling_events'
    /\ \A p \in PollerIds :
           ( /\ Handles(PollEvents(p))
             /\ contexts = {}
             /\ handled'.delivered )
               => /\ handled'.reply = "false"
                  /\ pollers'[p].reply = "false"
                  /\ ~polling_events'
    /\ \A p \in PollerIds :
           TakesFalse(p) => /\ pollers'[p].pc = "free"
                            /\ queue' = queue

\* C11 as claimed: the part above, and once a PollEvents has been answered
\* false the flag stays clear for as long as no context is registered.
C11_IdleForEver ==
    [][/\ C11_ActiveThenLastTick
       /\ ( /\ handled.msg.kind = "PollEvents"
            /\ handled.reply = "false"
            /\ contexts = {}
            /\ contexts' = {} )
              => ~polling_events'
      ]_vars

\* C11 amended: the part above, and a clear flag is set again only by the
\* step that handles a RegisterContext or a GetVRDisplays (the set of
\* registered contexts may be empty then).
C11_IdleUntilScheduled ==
    [][/\ C11_ActiveThenLastTick
       /\ (~polling_events /\ polling_events')
              => \/ Handles(GetVRDisplays)
                 \/ \E c \in Contexts : Handles(RegisterContext(c))
      ]_vars

\* C11 witness: the last context was unregistered and the PollEvents handled
\* right after it was answered false, leaving the flag clear.
C11_Witness ==
    /\ handled.msg.kind = "PollEvents"
    /\ handled.reply = "false"
    /\ handled.delivered
    /\ handled.before.msg.kind = "UnregisterContext"
    /\ initialized
    /\ contexts = {}
    /\ ~polling_events

\* C12. Polling resumes by itself, in every interleaving of RegisterContext,
\* UnregisterContext and poll ticks: once a RegisterContext(c) has been
\* handled with the hardware layer initialised, a PollEvents is issued and
\* handled after it, unless c is unregistered first.
C12_PollingResumes ==
    \A c \in Contexts :
        (handled.msg = RegisterContext(c) /\ initialized)
            ~> \/ handled.msg.kind = "PollEvents"
               \/ c \notin contexts

\* C12 witness: a context registered after the scheduler had stopped (the
\* flag clear, the hardware layer initialised) is still registered when the
\* next PollEvents is answered true.
C12_Witness ==
    /\ handled.msg.kind = "PollEvents"
    /\ handled.reply = "true"
    /\ handled.delivered
    /\ handled.before.msg.kind = "RegisterContext"
    /\ handled.before.msg.pipeline \in contexts
    /\ \E p \in PollerIds : pollers[p].reply = "false"

\* the WebVRPollEvents threads that can still send a PollEvents: started,
\* and not answered false
LivePollers ==
    {p \in PollerIds : pollers[p].pc # "free" /\ pollers[p].reply # "false"}

\* C13. Scheduling while the scheduler is active starts nothing: at most one
\* WebVRPollEvents thread can still send a PollEvents, and the inbound queue
\* never holds more than one PollEvents.
C13_SinglePoller ==
    /\ Cardinality(LivePollers) <= 1
    /\ Cardinality({i \in DOMAIN queue : queue[i].kind = "PollEvents"}) <= 1

\* C13 witness: two RegisterContext handled back to back with the hardware
\* layer initialised, the second finding the scheduler active, and one
\* thread polling.
C13_Witness ==
    /\ handled.msg.kind = "RegisterContext"
    /\ handled.before.msg.kind = "RegisterContext"
    /\ initialized
    /\ polling_events
    /\ Cardinality(LivePollers) = 1

\* C14 as claimed: once Exit has been handled, every WebVRPollEvents thread
\* ends, wherever its tick stood when the dispatcher left its loop.
C14_PollerEndsAfterExit ==
    (status = "exited") ~> (\A p \in PollerIds : pollers[p].pc = "free")

\* C15. UnregisterContext(a) leaves the ownership map as it is: a device a
\* holds stays a's after a is unregistered, every RequestPresent of another
\* context for it is answered DeviceBusy, and the entry goes only in the
\* step that handles an ExitPresent of a itself, answered Ok.
C15_UnregisterKeepsOwnership ==
    [][\A a \in Contexts :
        /\ Handles(UnregisterContext(a)) => presenting' = presenting
        /\ \A d \in DeviceIds :
            /\ \A b \in Contexts \ {a} :
                   ( /\ presenting[d] = a
                     /\ a \notin contexts
                     /\ Handles(RequestPresent(b, d)) )
                       => /\ handled'.reply = DeviceBusy
                          /\ presenting'[d] = a
            /\ (presenting[d] = a /\ a \notin contexts /\ presenting'[d] # a)
                   => \E s \in {NoSender, CallerSender} :
                          /\ Handles(ExitPresent(a, d, s))
                          /\ s = CallerSender => handled'.reply = "Ok"
      ]_vars

\* C15 witness: the owner was unregistered and the RequestPresent of another
\* context handled right after it was refused with DeviceBusy.
C15_Witness ==
    /\ handled.msg.kind = "RequestPresent"
    /\ handled.reply = DeviceBusy
    /\ handled.delivered
    /\ handled.before.msg.kind = "UnregisterContext"
    /\ presenting[handled.msg.device_id] = handled.before.msg.pipeline
    /\ handled.before.msg.pipeline # handled.msg.pipeline
    /\ handled.before.msg.pipeline \notin contexts

\* the step is the dispatcher handling a PollEvents that drains, and sends
\* on, an event of kind k for display d
Drains(k, d) ==
    /\ \E p \in PollerIds : Handles(PollEvents(p))
    /\ \E i \in DOMAIN events_out' :
           /\ events_out'[i].event.event = k
           /\ events_out'[i].event.display = d

\* C16 as claimed: after a PollEvents that drained a Disconnect event for
\* device d, d has no entry in the ownership map.
C16_DisconnectClearsOwnership ==
    [][\A d \in DeviceIds :
        Drains("Disconnect", d) => presenting'[d] = NoOwner
      ]_vars

\* C17. Every event the dispatcher sends to the constellation, a drained
\* hardware event or a PresentChange, is addressed to exactly the contexts
\* registered when the message that triggers it is handled.
C17_FanoutToRegistered ==
    [][\A i \in DOMAIN events_out' :
           /\ events_out'[i].pipeline_ids = contexts
           /\ contexts' = contexts
      ]_vars

\* C17 witness: a hardware event has just been sent on while one of the two
\* contexts was registered and the other was not.
C17_Witness ==
    /\ handled.msg.kind = "PollEvents"
    /\ events_out # <<>>
    /\ contexts # {}
    /\ contexts # Contexts
    /\ \A i \in DOMAIN events_out : events_out[i].pipeline_ids = contexts

\* C18 as claimed: a PollEvents handled while no context is registered
\* takes no event from the hardware layer and sends no event message.
C18_NoDrainWithoutContexts ==
    [][\A p \in PollerIds :
        (Handles(PollEvents(p)) /\ contexts = {}) => events_out' = <<>>
      ]_vars

\* C19 as claimed: the dispatcher sends no Change event to the contexts.
C19_ChangeNotFannedOut ==
    \A i \in DOMAIN events_out : events_out[i].event.event # "Change"

\* C19 amended: a Change event is sent on like any other; of the events that
\* reach a VRDisplay, a Change replaces the stored display data and fires no
\* DOM event, as do Connect (data replaced) and Disconnect (connected flag
\* cleared), while Activate, Deactivate, Blur, Focus and PresentChange
\* replace the data and fire their DOM event.
C19_ChangeNotSurfaced ==
    \A i \in DOMAIN events_out :
      \A self \in {VRDisplay_new, VRDisplay_presenting} :
        LET ev == events_out[i].event
            after == handle_webvr_event(self, ev)
        IN  /\ ev.event = "Change"
                => /\ after.fired = NoEvent
                   /\ after.self.display.data = ev
                   /\ after.self.presenting = self.presenting
            /\ ev.event = "Connect"
                => /\ after.fired = NoEvent
                   /\ after.self.display.data = ev
            /\ ev.event = "Disconnect"
                => /\ after.fired = NoEvent
                   /\ after.self.display.connected = FALSE
            /\ ev.event \in {"Activate", "Deactivate", "Blur", "Focus",
                             "PresentChange"}
                => /\ after.fired \notin {NoEvent, "panic"}
                   /\ after.fired = new_from_webvr(ev.event)
                   /\ after.self.display.data = ev

\* C19 witness: a Change event drained by a PollEvents is on its way to a
\* registered context.
C19_Witness ==
    /\ handled.msg.kind = "PollEvents"
    /\ contexts # {}
    /\ \E i \in DOMAIN events_out :
           /\ events_out[i].event.event = "Change"
           /\ events_out[i].pipeline_ids = contexts

\* the handler sent exactly one event, PresentChange(b) for display d
FansOutPresentChange(d, b) ==
    /\ Len(events_out') = 1
    /\ events_out'[1].event = DisplayEvent("PresentChange", d, b)

\* C20 as claimed: a RequestPresent answered Ok sends exactly one
\* PresentChange(true) and an ExitPresent answered Ok exactly one
\* PresentChange(false); either of them answered with an error sends no
\* event and leaves the ownership map and the registered set as they were.
C20_PresentChangeFanout ==
    [][\A c \in Contexts, d \in DeviceIds :
        /\ ( /\ Handles(RequestPresent(c, d))
             /\ handled'.delivered
             /\ handled'.reply = "Ok" )
               => FansOutPresentChange(d, TRUE)
        /\ ( /\ Handles(ExitPresent(c, d, CallerSender))
             /\ handled'.delivered
             /\ handled'.reply = "Ok" )
               => FansOutPresentChange(d, FALSE)
        /\ \A m \in {RequestPresent(c, d), ExitPresent(c, d, CallerSender)} :
               ( /\ Handles(m)
                 /\ handled'.reply \in {DeviceBusy, DeviceNotFound} )
                   => /\ events_out' = <<>>
                      /\ presenting' = presenting
                      /\ contexts' = contexts
      ]_vars

\* C21, the part the claim and its amendment share: an ExitPresent(b, d)
\* handled while another context a holds d leaves the ownership map as it
\* is and sends no event.
C21_ForeignExitChangesNothing ==
    \A a \in Contexts, d \in DeviceIds :
      \A b \in Contexts \ {a}, s \in {NoSender, CallerSender} :
        (presenting[d] = a /\ Handles(ExitPresent(b, d, s)))
            => /\ presenting' = presenting
               /\ events_out' = <<>>

\* C21 as claimed: the part above, and b is not answered with an error.
C21_ForeignExitSilent ==
    [][/\ C21_ForeignExitChangesNothing
       /\ \A a \in Contexts, d \in DeviceIds :
            \A b \in Contexts \ {a}, s \in {NoSender, CallerSender} :
              (presenting[d] = a /\ Handles(ExitPresent(b, d, s)))
                  => handled'.reply \notin {DeviceBusy, DeviceNotFound}
      ]_vars

\* C21 amended: the part above, and b is answered DeviceBusy when its
\* request carries a reply channel; only a request without one is silent.
C21_ForeignExitRefused ==
    [][/\ C21_ForeignExitChangesNothing
       /\ \A a \in Contexts, d \in DeviceIds : \A b \in Contexts \ {a} :
            /\ (presenting[d] = a /\ Handles(ExitPresent(b, d, CallerSender)))
                   => handled'.reply = DeviceBusy
            /\ (presenting[d] = a /\ Handles(ExitPresent(b, d, NoSender)))
                   => /\ handled'.reply = NoReply
                      /\ status' = status
      ]_vars

\* C21 witness: an ExitPresent of a context other than the owner has just
\* been answered DeviceBusy, the owner keeping the device.
C21_Witness ==
    /\ handled.msg.kind = "ExitPresent"
    /\ handled.msg.sender = CallerSender
    /\ handled.reply = DeviceBusy
    /\ handled.delivered
    /\ presenting[handled.msg.device_id] \in Contexts \ {handled.msg.pipeline}
    /\ events_out = <<>>

\* C23. One queue, one consumer, no priorities: the queue changes only by a
\* sender appending a message at its end or by the dispatcher taking its
\* head; what the dispatcher handles is always the head, PollEvents
\* included; and the dispatcher's state (registered set, ownership map,
\* polling flag, status) changes only in a step that handles the head.
C23_FifoDispatch ==
    [][/\ queue' # queue
           => \/ /\ queue # <<>>
                 /\ queue' = Tail(queue)
                 /\ handled'.msg = Head(queue)
              \/ /\ \E m \in CallerMessages \cup {Exit}
                            \cup {PollEvents(p) : p \in PollerIds} :
                        queue' = Append(queue, m)
                 /\ handled'.msg = NoMsg
       /\ handled'.msg # NoMsg
           => /\ queue # <<>>
              /\ handled'.msg = Head(queue)
              /\ queue' = Tail(queue)
       /\ <<contexts, presenting, polling_events, status>>' #
              <<contexts, presenting, polling_events, status>>
           => /\ queue # <<>>
              /\ handled'.msg = Head(queue)
      ]_vars

\* C23 witness: a caller's request and the PollEvents queued behind it were
\* handled back to back in that order, both answered.
C23_Witness ==
    /\ handled.msg.kind = "PollEvents"
    /\ handled.before.msg.kind = "RequestPresent"
    /\ handled.before.reply = "Ok"
    /\ handled.delivered
    /\ queue = <<>>

\* C24. The answer to a PollEvents is true exactly when a context is
\* registered as the message is handled, whatever was drained and whatever
\* the ownership map holds; the polling flag after the handler equals the
\* answer, which is the value the poller receives.
C24_PollReply ==
    [][\A p \in PollerIds :
        (Handles(PollEvents(p)) /\ handled'.delivered)
            => /\ handled'.reply = "true" <=> contexts # {}
               /\ handled'.reply = "false" <=> contexts = {}
               /\ polling_events' <=> handled'.reply = "true"
               /\ pollers'[p].reply = handled'.reply
      ]_vars

\* C24 witness: a PollEvents that drained an event while a device was
\* presented and no context registered has just been answered false.
C24_Witness ==
    /\ handled.msg.kind = "PollEvents"
    /\ handled.reply = "false"
    /\ handled.delivered
    /\ events_out # <<>>
    /\ \E d \in DeviceIds : presenting[d] # NoOwner
    /\ ~polling_events

\* the step starts a WebVRPollEvents thread
StartsPoller ==
    \E p \in PollerIds : pollers[p].pc = "free" /\ pollers'[p].pc # "free"

\* C25. The polling flag goes from clear to set, and a thread is started,
\* exactly in the step that handles a RegisterContext or (to its end) a
\* GetVRDisplays while the flag is clear and the service reports itself
\* initialised when schedule_poll_events asks; with the service not
\* initialised neither starts anything, and no other message ever does.
C25_IdleToActive ==
    [][/\ (~polling_events /\ polling_events') <=> StartsPoller
       /\ StartsPoller
           => /\ initialized'
              /\ \/ Handles(GetVRDisplays)
                 \/ \E c \in Contexts : Handles(RegisterContext(c))
       /\ \A c \in Contexts :
              (Handles(RegisterContext(c)) /\ ~polling_events)
                  => (StartsPoller <=> initialized)
       /\ (Handles(GetVRDisplays) /\ handled'.delivered /\ ~polling_events)
              => (StartsPoller <=> initialized')
      ]_vars

\* C25 witness: a RegisterContext has just been handled with the service
\* not initialised, and nothing was started.
C25_Witness ==
    /\ handled.msg.kind = "RegisterContext"
    /\ handled.msg.pipeline \in contexts
    /\ ~initialized
    /\ ~polling_events
    /\ \A p \in PollerIds : pollers[p].pc = "free"

\* C26. The polling flag goes from set to clear only in the step that
\* handles a PollEvents while no context is registered; while it is set,
\* UnregisterContext, of the last context too, and every other message but
\* PollEvents leave the flag and the WebVRPollEvents threads as they are.
C26_ActiveToIdle ==
    [][/\ (polling_events /\ ~polling_events')
           => /\ \E p \in PollerIds : Handles(PollEvents(p))
              /\ contexts = {}
       /\ (polling_events /\ handled'.msg.kind \notin {"none", "PollEvents"})
           => UNCHANGED <<polling_events, pollers>>
      ]_vars

\* C26 witness: the last context has just been unregistered; the flag is
\* still set and the thread still polls.
C26_Witness ==
    /\ handled.msg.kind = "UnregisterContext"
    /\ handled.before.msg = RegisterContext(handled.msg.pipeline)
    /\ contexts = {}
    /\ polling_events
    /\ LivePollers # {}

\* C30. Registration is set membership: a handled RegisterContext(c) leaves
\* c registered and nothing else changed, so a second one changes nothing;
\* a handled UnregisterContext(c) leaves c unregistered and nothing else
\* changed, so it changes nothing when c was not registered and undoes any
\* number of registrations at once.
C30_RegistrationIdempotent ==
    [][\A c \in Contexts :
        /\ Handles(RegisterContext(c))
               => /\ contexts' = contexts \cup {c}
                  /\ c \in contexts => contexts' = contexts
        /\ Handles(UnregisterContext(c))
               => /\ contexts' = contexts \ {c}
                  /\ c \notin contexts'
                  /\ c \notin contexts => contexts' = contexts
        /\ contexts' # contexts
               => \E b \in Contexts : \/ Handles(RegisterContext(b))
                                      \/ Handles(UnregisterContext(b))
      ]_vars

\* C30 witness: the same RegisterContext was handled twice and the context
\* is registered once, the other context not at all.
C30_Witness ==
    /\ handled.msg.kind = "RegisterContext"
    /\ handled.before.msg = handled.msg
    /\ contexts = {handled.msg.pipeline}

\* the step is the script thread of context c calling method m of its
\* VRDisplay for device d
Calls(c, m, d) ==
    /\ calls[c].pc = "idle"
    /\ calls'[c].method = m
    /\ calls'[c].device_id = d

\* the step is that script thread taking the reply to its call and returning
Returns(c, m, d) ==
    /\ calls[c].pc = "waiting"
    /\ calls[c].method = m
    /\ calls[c].device_id = d
    /\ calls'[c].pc = "idle"

\* C27. A RequestPresent on a VRDisplay whose presenting flag is set sends
\* nothing to the dispatcher and leaves the ownership map alone: it returns
\* at once, changes at most the stored layer of that VRDisplay, and with a
\* layer that validates it stores that layer and resolves the promise.
C27_RepeatRequestPresent ==
    [][\A c \in Contexts, d \in DeviceIds :
        (Calls(c, "RequestPresent", d) /\ displays[<<c, d>>].presenting)
            => LET w == <<c, d>>
                   call == calls'[c]
                   valid == /\ call.args \in LayerInputs
                            /\ validate_layer(call.args).result = "Ok"
               IN  /\ queue' = queue
                   /\ presenting' = presenting
                   /\ call.pc # "waiting"
                   /\ displays' = [displays EXCEPT
                                      ![w].layer = displays'[w].layer]
                   /\ valid
                       => /\ call.promise = "resolved"
                          /\ displays'[w].layer
                                 = validate_layer(call.args).layer
                   /\ ~valid => displays' = displays
      ]_vars

\* C27 witness: a repeat RequestPresent has just resolved and replaced the
\* stored layer, with no request on its way.
C27_Witness ==
    \E c \in Contexts, d \in DeviceIds :
        /\ calls[c].method = "RequestPresent"
        /\ calls[c].device_id = d
        /\ calls[c].promise = "resolved"
        /\ displays[<<c, d>>].presenting
        /\ displays[<<c, d>>].layer # DefaultLayer
        /\ presenting[d] = c
        /\ queue = <<>>

\* C28. ExitPresent on a VRDisplay whose presenting flag is clear rejects
\* the promise and sends nothing; with the flag set and the WebVR thread
\* there it sends ExitPresent and waits; on the reply Ok it clears the flag
\* and resolves the promise, on an error reply the flag stays set and the
\* promise is rejected with that error.
C28_ExitPresentByFlag ==
    [][\A c \in Contexts, d \in DeviceIds :
        LET w == <<c, d>>
            call == calls'[c]
        IN  /\ (Calls(c, "ExitPresent", d) /\ ~displays[w].presenting)
                => /\ call.pc = "idle"
                   /\ call.promise = "rejected"
                   /\ queue' = queue
                   /\ displays' = displays
            /\ (Calls(c, "ExitPresent", d) /\ displays[w].presenting)
                => /\ displays' = displays
                   /\ \/ /\ call.pc = "waiting"
                         /\ queue' = Append(queue,
                                            ExitPresent(c, d, CallerSender))
                      \/ /\ call.pc = "idle"
                         /\ call.promise = "rejected"
                         /\ call.error = "Not available"
                         /\ queue' = queue
                      \/ /\ call.pc = "panicked"
                         /\ status # "running"
                         /\ queue' = queue
            /\ Returns(c, "ExitPresent", d)
                => /\ displays[w].presenting
                   /\ IF calls[c].reply = "Ok"
                      THEN /\ ~displays'[w].presenting
                           /\ call.promise = "resolved"
                      ELSE /\ displays' = displays
                           /\ call.promise = "rejected"
                           /\ call.error = calls[c].reply
      ]_vars

\* C28 witness: an ExitPresent sent with the flag set was answered with an
\* error; the promise is rejected and the flag is still set.
C28_Witness ==
    \E c \in Contexts, d \in DeviceIds :
        /\ calls[c].method = "ExitPresent"
        /\ calls[c].device_id = d
        /\ calls[c].promise = "rejected"
        /\ calls[c].error \in {DeviceBusy, DeviceNotFound}
        /\ displays[<<c, d>>].presenting
        /\ presenting[d] \notin {c, NoOwner}

\* the array has a number of values other than 0 and 4
BadLength(src) == src.some /\ Len(src.values) \notin {0, 4}

\* C29. A RequestPresent that gets as far as the bounds of its layer (the
\* display can present, one layer, a WebGL source) is rejected with the
\* bounds error whenever leftBounds or rightBounds has a number of values
\* other than 0 and 4, lengths 1, 2 and 3 included; with no array or 0 or 4
\* values in each it is not, and only an array of 4 values is copied.
C29_BadBoundsRejected ==
    \A c \in Contexts :
        LET call == calls[c]
            layer == call.args
        IN  (/\ call.method = "RequestPresent"
             /\ layer \in LayerInputs
             /\ layer.source = "webgl")
                => /\ (BadLength(layer.leftBounds)
                          \/ BadLength(layer.rightBounds))
                       <=> (/\ call.pc = "idle"
                            /\ call.promise = "rejected"
                            /\ call.error = BoundsError)
                   /\ call.pc # "panicked"
                   /\ validate_layer(layer).result = "Ok"
                       => /\ validate_layer(layer).layer.left_bounds =
                                 IF layer.leftBounds.some
                                     /\ Len(layer.leftBounds.values) = 4
                                 THEN layer.leftBounds.values
                                 ELSE DefaultBounds
                          /\ validate_layer(layer).layer.right_bounds =
                                 IF layer.rightBounds.some
                                     /\ Len(layer.rightBounds.values) = 4
                                 THEN layer.rightBounds.values
                                 ELSE DefaultBounds

\* C22. The devices are worked on by the dispatcher alone: in no state are
\* the dispatcher and the compositor handler inside the same device with
\* one of them writing it.
C22_NoConcurrentDeviceAccess ==
    ~ /\ inside.webvr # NoAccess
      /\ inside.handler # NoAccess
      /\ inside.webvr.device_id = inside.handler.device_id
      /\ inside.webvr.write \/ inside.handler.write

\* C31. The presenting flag of a VRDisplay agrees with the ownership map:
\* a VRDisplay of context c for device d whose script thread is in no
\* method and has no event left to handle reports presenting only if the
\* map holds d -> c.
C31_FlagAgreesWithOwner ==
    \A c \in Contexts, d \in DeviceIds :
        (/\ displays[<<c, d>>].presenting
         /\ calls[c].pc = "idle"
         /\ inbox[c] = <<>>)
            => presenting[d] = c

\* C32. The promise RequestPresent returns is settled: whenever the method
\* has returned, on any of its paths, its promise is resolved or rejected.
C32_PromiseSettled ==
    \A c \in Contexts :
        (calls[c].method = "RequestPresent" /\ calls[c].pc = "idle")
            => calls[c].promise \in {"resolved", "rejected"}

\* C33. The PresentChange events of a device alternate: a RequestPresent or
\* ExitPresent handler sends PresentChange(true) only in a step that takes
\* the device from unowned to owned, and PresentChange(false) only in a
\* step that takes it from owned to unowned.
C33_PresentChangeAlternates ==
    [][\A d \in DeviceIds :
        handled'.msg.kind \in {"RequestPresent", "ExitPresent"}
            => /\ FansOutPresentChange(d, TRUE)
                   => /\ presenting[d] = NoOwner
                      /\ presenting'[d] # NoOwner
               /\ FansOutPresentChange(d, FALSE)
                   => /\ presenting[d] # NoOwner
                      /\ presenting'[d] = NoOwner
      ]_vars

\* C34. The ownership map changes only through the owner's own requests: a
\* step that changes the entry of device d either handles a
\* RequestPresent(c, d) that access_check lets through, for a device nobody
\* held, and leaves d -> c (the answer Ok reached c, or the dispatcher
\* panicked on sending it), or handles an ExitPresent(c, d) of the context c
\* that held d and leaves d unowned; no other message and no other context
\* creates, removes or reassigns an entry.
C34_OwnerChangesOwnership ==
    [][\A d \in DeviceIds :
        presenting'[d] # presenting[d]
            => \E c \in Contexts :
                 \/ /\ Handles(RequestPresent(c, d))
                    /\ handled'.reply = "Ok"
                    /\ handled'.delivered \/ status' = "panicked"
                    /\ presenting[d] = NoOwner
                    /\ presenting'[d] = c
                 \/ /\ \E s \in {NoSender, CallerSender} :
                           Handles(ExitPresent(c, d, s))
                    /\ presenting[d] = c
                    /\ presenting'[d] = NoOwner
      ]_vars

\* C34 witness: the owner gave the device up with an ExitPresent that
\* carries no reply channel, right after it had acquired it.
C34_Witness ==
    \E c \in Contexts, d \in DeviceIds :
        /\ handled.msg = ExitPresent(c, d, NoSender)
        /\ handled.before.msg = RequestPresent(c, d)
        /\ handled.before.reply = "Ok"
        /\ presenting[d] = NoOwner

\* C35. While the dispatcher runs, the polling flag is set exactly when one
\* WebVRPollEvents thread has a PollEvents pending or will send another:
\* never the flag set and no such thread, never the flag clear and a thread
\* that will poll again.
C35_FlagMirrorsPoller ==
    status = "running"
        => (polling_events <=> Cardinality(LivePollers) = 1)

\* C35 witness: polling was started again while the thread of the round
\* before has not yet taken its answer false; the flag is set and the new
\* thread is the one that polls.
C35_Witness ==
    \E p \in PollerIds, q \in PollerIds :
        /\ status = "running"
        /\ polling_events
        /\ pollers[p].pc = "wait"
        /\ pollers[p].reply = "false"
        /\ pollers[q].pc = "send"
        /\ LivePollers = {q}

\* C36. Once the dispatcher has left its loop on Exit (VR_MANAGER null, the
\* service dropped), the compositor handler reaches no device: no SyncPoses
\* or SubmitFrame enters a device through a stored pointer, and Create maps
\* no new id.
C36_NoDeviceAfterLoop ==
    [][status = "exited"
        => /\ inside.handler = NoAccess => inside'.handler = NoAccess
           /\ compositors' \subseteq compositors
      ]_vars

=============================================================================
